---- MODULE Spec2Model ----
(***************************************************************************)
(* Model of the chunked upload server in src/server.js: the chunk store    *)
(* (chunks/<fileHash>/<hash>), the artifact store (uploads/<fileName>),    *)
(* and the handlers /upload, /merge, /check-file and /verify.  A /merge    *)
(* request is an async function, so it is a process with one step per      *)
(* await; its write stream and its cleanup timer run on their own.         *)
(***************************************************************************)
EXTENDS Integers, Sequences, FiniteSets, TLC

\* ------------------------------------------------------------------ bounds
\* Number of /merge requests a behaviour holds.
MaxMerges == 2
\* Number of /upload requests a behaviour holds.
MaxUploads == 3

\* ------------------------------------------------------------- input sets
Merges == 1..MaxMerges
\* req.body.fileHash values of /upload and /merge.
Hashes == {"H1", "H2"}
\* req.body.fileName values of /merge.
Names == {"F1", "F2"}
\* req.body.hash values of /upload (the chunk keys), as character sequences.
K2a == <<"2", "-", "a">>
K10b == <<"1", "0", "-", "b">>
K2c == <<"2", "-", "c">>
Keys == {K2a, K10b, K2c}
\* A chunk's content (req.file.buffer): one byte.
Bytes == {"A", "B"}
\* The index each chunk key carries in front of its first '-'.
KeyNumber == (K2a :> 2) @@ (K10b :> 10) @@ (K2c :> 2)
\* The byte a hole of a file reads as.
Zero == "Z"
\* No slot.
Nil == "nil"
\* A field the request body lacks (or holds empty); a request without a file.
Missing == "missing"
\* No file under a name of uploads/.
NoFile == <<Nil>>

\* -------------------------------------------------------------- the state
VARIABLES
  dirs,     \* the fileHashes whose chunk directory exists
  slots,    \* slots[h][k]: the bytes of chunk file chunks/h/k, or Nil
  files,    \* files[f]: the bytes of uploads/f, or NoFile
  pc,       \* pc[m]: where /merge request m stands
  mHash,    \* mHash[m], mName[m]: its fileHash and fileName
  mName,
  chunks,   \* chunks[m]: its sorted chunk list
  idx,      \* idx[m]: the position of its loop in chunks[m]
  resp,     \* resp[m]: its response
  ws,       \* ws[m]: its write stream
  timer,    \* timer[m]: its setTimeout cleanup
  nUploads, \* /upload requests so far
  upResp,   \* the response to the last /upload request
  reply,    \* the last /check-file or /verify request and its response
  \* History, read by the properties only:
  sent,     \* sent[h][k]: the bytes of the last /upload of (h, k) and those it replaced
  listed,   \* listed[m]: the chunk files and their bytes when m's readdir ran
  late,     \* late[m]: an /upload for mHash[m] arrived after m had started
  earlier   \* earlier[m]: the /merge requests that had answered success when
            \* m started

vars == <<dirs, slots, files, pc, mHash, mName, chunks, idx, resp, ws, timer, nUploads,
          upResp, reply, sent, listed, late, earlier>>
\* What the steps of a /merge request, its stream and its timer leave alone.
rest == <<nUploads, upResp, reply, sent, listed, late, earlier>>

\* ------------------------------------------------------- pure functions
\* a.split('-')[0]: the characters before the first '-'.
RECURSIVE SplitFirst(_)
SplitFirst(a) ==
  IF a = <<>> \/ Head(a) = "-" THEN <<>> ELSE <<Head(a)>> \o SplitFirst(Tail(a))

Digits == {"0", "1", "2", "3", "4", "5", "6", "7", "8", "9"}

DigitVal(c) ==
  CASE c = "0" -> 0 [] c = "1" -> 1 [] c = "2" -> 2 [] c = "3" -> 3 [] c = "4" -> 4
    [] c = "5" -> 5 [] c = "6" -> 6 [] c = "7" -> 7 [] c = "8" -> 8 [] c = "9" -> 9

\* The leading decimal digits of s.
RECURSIVE LeadingDigits(_)
LeadingDigits(s) ==
  IF s = <<>> \/ Head(s) \notin Digits THEN <<>>
  ELSE <<Head(s)>> \o LeadingDigits(Tail(s))

RECURSIVE DecimalValue(_)
DecimalValue(ds) ==
  IF ds = <<>> THEN 0
  ELSE 10 * DecimalValue(SubSeq(ds, 1, Len(ds) - 1)) + DigitVal(ds[Len(ds)])

\* A JavaScript number: NaN, or the integer val.
NaN == [nan |-> TRUE, val |-> 0]
Num(n) == [nan |-> FALSE, val |-> n]

\* parseInt(s) of a string with no sign, blank or radix prefix: the value of
\* its leading digits, NaN when it has none.
ParseInt(s) ==
  IF LeadingDigits(s) = <<>> THEN NaN ELSE Num(DecimalValue(LeadingDigits(s)))

\* The code of a character, as far as the order of the keys' characters goes.
CharCode(c) ==
  CASE c = "-" -> 45 [] c \in Digits -> 48 + DigitVal(c)
    [] c = "a" -> 97 [] c = "b" -> 98 [] c = "c" -> 99

\* The comparison of chunks.sort() without a comparator: by the strings.
RECURSIVE CompareStrings(_, _)
CompareStrings(a, b) ==
  IF a = <<>> \/ b = <<>> THEN Num(Len(a) - Len(b))
  ELSE IF Head(a) # Head(b) THEN Num(CharCode(Head(a)) - CharCode(Head(b)))
  ELSE CompareStrings(Tail(a), Tail(b))

\* The sort comparator: parseInt(indexA) - parseInt(indexB), NaN when either is.
CompareChunks(a, b) ==
  LET indexA == SplitFirst(a)
      indexB == SplitFirst(b)
  IN  IF ParseInt(indexA).nan \/ ParseInt(indexB).nan THEN NaN
      ELSE Num(ParseInt(indexA).val - ParseInt(indexB).val)

\* The comparator is > 0: the sort puts a after b (a NaN result counts as 0).
ComesAfter(a, b) ==
  LET v == CompareChunks(a, b) IN ~v.nan /\ v.val > 0

\* chunks.sort(comparator), a stable sort: an element goes before another
\* when the comparator orders them so, and before a later one that it ties with.
SortChunks(list) ==
  LET n == Len(list)
      Before(i, j) ==
        \/ ComesAfter(list[j], list[i])
        \/ ~ComesAfter(list[i], list[j]) /\ i < j
      Rank(i) == Cardinality({j \in 1..n : j # i /\ Before(j, i)}) + 1
  IN  [r \in 1..n |-> list[CHOOSE i \in 1..n : Rank(i) = r]]

\* The orders in which readdir may enumerate the entries S.
Enumerations(S) ==
  {o \in [1..Cardinality(S) -> S] : \A i, j \in 1..Cardinality(S) : i # j => o[i] # o[j]}

\* readdir(chunkDir): the names of the chunk files of h.
Entries(h) == {k \in Keys : slots[h][k] # Nil}

\* write(fd, b) at offset pos of a file holding content: the bytes beyond the
\* end of the file up to pos read as zero.
RECURSIVE Zeros(_)
Zeros(n) == IF n <= 0 THEN <<>> ELSE <<Zero>> \o Zeros(n - 1)

WriteAt(content, pos, b) ==
  IF pos < Len(content) THEN [content EXCEPT ![pos + 1] = b]
  ELSE content \o Zeros(pos - Len(content)) \o <<b>>

\* -------------------------------------------------------------------- Init
NoReply == [op |-> "none"]
NoStream == [st |-> "none", buf |-> <<>>, pos |-> 0, ended |-> FALSE]

Init ==
  /\ dirs = {}
  /\ slots = [h \in Hashes |-> [k \in Keys |-> Nil]]
  /\ files = [f \in Names |-> NoFile]
  /\ pc = [m \in Merges |-> "idle"]
  /\ mHash = [m \in Merges |-> Nil]
  /\ mName = [m \in Merges |-> Nil]
  /\ chunks = [m \in Merges |-> <<>>]
  /\ idx = [m \in Merges |-> 0]
  /\ resp = [m \in Merges |-> "none"]
  /\ ws = [m \in Merges |-> NoStream]
  /\ timer = [m \in Merges |-> "none"]
  /\ nUploads = 0
  /\ upResp = "none"
  /\ reply = NoReply
  /\ sent = [h \in Hashes |-> [k \in Keys |-> [last |-> Nil, prev |-> Nil]]]
  /\ listed = [m \in Merges |-> [k \in Keys |-> Nil]]
  /\ late = [m \in Merges |-> FALSE]
  /\ earlier = [m \in Merges |-> {}]

\* The process lives: no write stream has emitted 'error'. No stream has an
\* 'error' listener, so the event is thrown as an uncaught exception and the
\* process exits, every request in flight unanswered.
Running == \A m \in Merges : ws[m].st # "failed"

\* ----------------------------------------------------------------- /upload
\* A write that keeps an existing slot (flag 'wx', its failure dropped).
WriteFileExclusive(old, b) == IF old = Nil THEN b ELSE old

\* fs.writeFileSync(chunkPath, buffer): the slot holds exactly the buffer.
WriteFileSync(old, b) == b

\* An upload that makes the chunk directory anew: the other slots are lost.
PutChunkAlone(d, s, h, k, b) ==
  [dirs |-> d \cup {h},
   slots |-> [s EXCEPT ![h] = [kk \in Keys |-> IF kk = k THEN b ELSE Nil]]]

\* mkdirSync(chunkDir) if absent, then writeFileSync(chunkPath, buffer), on
\* the chunk store (d, s): the directory exists and the one slot is written.
PutChunk(d, s, h, k, b) ==
  [dirs |-> d \cup {h},
   slots |-> [s EXCEPT ![h][k] = WriteFileSync(s[h][k], b)]]

\* app.post('/upload'): 400 without hash or fileHash; else make the chunk
\* directory if absent and write the slot. Without a file, req.file.buffer
\* throws once the directory is made: 500.
Upload(h, k, b) ==
  /\ Running
  /\ nUploads' = nUploads + 1
  /\ IF k = <<>> \/ h = Missing
     THEN /\ upResp' = "badRequest"
          /\ UNCHANGED <<dirs, slots, sent, late>>
     ELSE /\ late' = [m \in Merges |-> late[m] \/ (pc[m] # "idle" /\ mHash[m] = h)]
          /\ IF b = Missing
             THEN /\ upResp' = "error"
                  /\ dirs' = dirs \cup {h}
                  /\ UNCHANGED <<slots, sent>>
             ELSE /\ upResp' = "ok"
                  /\ dirs' = PutChunk(dirs, slots, h, k, b).dirs
                  /\ slots' = PutChunk(dirs, slots, h, k, b).slots
                  /\ sent' = [sent EXCEPT ![h][k] = [last |-> b, prev |-> slots[h][k]]]
  /\ UNCHANGED <<files, pc, mHash, mName, chunks, idx, resp, ws, timer, reply, listed,
                 earlier>>

\* ------------------------------------------------------------------ /merge
\* The catch block: a 500 response; the write stream is left as it is.
Fail(m) ==
  /\ pc' = [pc EXCEPT ![m] = "done"]
  /\ resp' = [resp EXCEPT ![m] = "error"]

\* app.post('/merge') up to its first await: 400 without fileHash or
\* fileName, then existsSync(chunkDir).
MergeStart(m, h, f) ==
  /\ Running
  /\ pc[m] = "idle"
  /\ \A n \in Merges : n < m => pc[n] # "idle"
  /\ mHash' = [mHash EXCEPT ![m] = h]
  /\ mName' = [mName EXCEPT ![m] = f]
  /\ IF h = Missing \/ f = Missing
     THEN /\ pc' = [pc EXCEPT ![m] = "done"]
          /\ resp' = [resp EXCEPT ![m] = "badRequest"]
     ELSE IF h \notin dirs
     THEN /\ pc' = [pc EXCEPT ![m] = "done"]
          /\ resp' = [resp EXCEPT ![m] = "noDir"]
     ELSE /\ pc' = [pc EXCEPT ![m] = "readdir"]
          /\ UNCHANGED resp
  /\ earlier' = [earlier EXCEPT ![m] = {n \in Merges : resp[n] = "ok"}]
  /\ UNCHANGED <<dirs, slots, files, chunks, idx, ws, timer, nUploads, upResp, reply,
                 sent, listed, late>>

\* await readdir(chunkDir), the empty check, the sort and createWriteStream.
MergeReaddir(m) ==
  /\ Running
  /\ pc[m] = "readdir"
  /\ IF mHash[m] \notin dirs
     THEN Fail(m) /\ UNCHANGED <<chunks, idx, ws, listed>>
     ELSE IF Entries(mHash[m]) = {}
     THEN /\ pc' = [pc EXCEPT ![m] = "done"]
          /\ resp' = [resp EXCEPT ![m] = "noChunks"]
          /\ UNCHANGED <<chunks, idx, ws, listed>>
     ELSE \E o \in Enumerations(Entries(mHash[m])) :
          /\ chunks' = [chunks EXCEPT ![m] = SortChunks(o)]
          /\ idx' = [idx EXCEPT ![m] = 1]
          /\ ws' = [ws EXCEPT ![m].st = "opening"]
          /\ pc' = [pc EXCEPT ![m] = "read"]
          /\ listed' = [listed EXCEPT ![m] = slots[mHash[m]]]
          /\ UNCHANGED resp
  /\ UNCHANGED <<dirs, slots, files, mHash, mName, timer, nUploads, upResp, reply,
                 sent, late, earlier>>

\* await readFile(chunkPath), then writeStream.write(buffer).
MergeRead(m) ==
  /\ Running
  /\ pc[m] = "read"
  /\ LET b == slots[mHash[m]][chunks[m][idx[m]]] IN
     IF b = Nil
     THEN Fail(m) /\ UNCHANGED ws
     ELSE /\ ws' = [ws EXCEPT ![m].buf = Append(@, b)]
          /\ pc' = [pc EXCEPT ![m] = "unlink"]
          /\ UNCHANGED resp
  /\ UNCHANGED <<dirs, slots, files, mHash, mName, chunks, idx, timer, rest>>

\* An unlink that takes the chunk file of that name out of every directory.
UnlinkEverywhere(h, k) == [g \in Hashes |-> [slots[g] EXCEPT ![k] = Nil]]

\* fs.promises.unlink(chunkPath) of an existing chunk file.
Unlink(h, k) == [slots EXCEPT ![h][k] = Nil]

\* await unlink(chunkPath); after the last chunk: writeStream.end(), the
\* setTimeout of the directory cleanup and the success response.
MergeUnlink(m) ==
  /\ Running
  /\ pc[m] = "unlink"
  /\ LET h == mHash[m]
         k == chunks[m][idx[m]]
     IN IF slots[h][k] = Nil
        THEN Fail(m) /\ UNCHANGED <<slots, idx, ws, timer>>
        ELSE /\ slots' = Unlink(h, k)
             /\ IF idx[m] < Len(chunks[m])
                THEN /\ idx' = [idx EXCEPT ![m] = @ + 1]
                     /\ pc' = [pc EXCEPT ![m] = "read"]
                     /\ UNCHANGED <<resp, ws, timer>>
                ELSE /\ ws' = [ws EXCEPT ![m].ended = TRUE]
                     /\ timer' = [timer EXCEPT ![m] = "armed"]
                     /\ resp' = [resp EXCEPT ![m] = "ok"]
                     /\ pc' = [pc EXCEPT ![m] = "done"]
                     /\ UNCHANGED idx
  /\ UNCHANGED <<dirs, files, mHash, mName, chunks, rest>>

\* readFile(chunkPath) rejects though the chunk file is there (I/O error,
\* permissions): the catch block.
MergeReadFails(m) ==
  /\ Running
  /\ pc[m] = "read"
  /\ Fail(m)
  /\ UNCHANGED <<dirs, slots, files, mHash, mName, chunks, idx, ws, timer, rest>>

\* unlink(chunkPath) rejects though the chunk file is there: the catch block.
MergeUnlinkFails(m) ==
  /\ Running
  /\ pc[m] = "unlink"
  /\ Fail(m)
  /\ UNCHANGED <<dirs, slots, files, mHash, mName, chunks, idx, ws, timer, rest>>

\* ------------------------------------------------------- the write stream
\* fs.createWriteStream(filePath): the open (flags 'w') creates or truncates.
StreamOpen(m) ==
  /\ Running
  /\ ws[m].st = "opening"
  /\ ws' = [ws EXCEPT ![m].st = "open"]
  /\ files' = [files EXCEPT ![mName[m]] = <<>>]
  /\ UNCHANGED <<dirs, slots, pc, mHash, mName, chunks, idx, resp, timer, rest>>

\* One buffered write reaches the file, at the descriptor's offset.
StreamWrite(m) ==
  /\ Running
  /\ ws[m].st = "open"
  /\ ws[m].buf # <<>>
  /\ files' = [files EXCEPT ![mName[m]] = WriteAt(@, ws[m].pos, Head(ws[m].buf))]
  /\ ws' = [ws EXCEPT ![m].buf = Tail(@), ![m].pos = @ + 1]
  /\ UNCHANGED <<dirs, slots, pc, mHash, mName, chunks, idx, resp, timer, rest>>

\* After end(), once every write is flushed: 'finish', and the close.
StreamFinish(m) ==
  /\ Running
  /\ ws[m].st = "open"
  /\ ws[m].ended
  /\ ws[m].buf = <<>>
  /\ ws' = [ws EXCEPT ![m].st = "closed"]
  /\ UNCHANGED <<dirs, slots, files, pc, mHash, mName, chunks, idx, resp, timer, rest>>

\* The open of the stream fails (the path is a directory, lies in a missing
\* or unwritable directory, ...): 'error' with no listener.
StreamOpenFails(m) ==
  /\ Running
  /\ ws[m].st = "opening"
  /\ ws' = [ws EXCEPT ![m].st = "failed"]
  /\ UNCHANGED <<dirs, slots, files, pc, mHash, mName, chunks, idx, resp, timer, rest>>

\* A buffered write fails (full disk, I/O error): 'error' with no listener.
StreamWriteFails(m) ==
  /\ Running
  /\ ws[m].st = "open"
  /\ ws[m].buf # <<>>
  /\ ws' = [ws EXCEPT ![m].st = "failed"]
  /\ UNCHANGED <<dirs, slots, files, pc, mHash, mName, chunks, idx, resp, timer, rest>>

\* ------------------------------------------------------ the cleanup timer
\* A cleanup that removes nothing.
RmdirNothing(h) == dirs

\* rmdir(chunkDir) removes the directory only when it exists and is empty;
\* its failure is logged.
Rmdir(h) == IF h \in dirs /\ Entries(h) = {} THEN dirs \ {h} ELSE dirs

Cleanup(m) ==
  /\ Running
  /\ timer[m] = "armed"
  /\ timer' = [timer EXCEPT ![m] = "fired"]
  /\ dirs' = Rmdir(mHash[m])
  /\ UNCHANGED <<slots, files, pc, mHash, mName, chunks, idx, resp, ws, rest>>

\* ------------------------------------------------------------ /check-file
\* req.body.size values: the sizes a client declares; a request may carry none.
Sizes == 0..(MaxUploads - 1)

\* fs.existsSync(filePath).
ExistsSync(fileName) == files[fileName] # NoFile

\* stats.size of an existing file.
StatSize(content) == Len(content)

\* A size test that leaves the comparison out.
SizeGiven(sized, size, content) == sized /\ size # 0

\* 'size && stats.size === size': a size that is missing or 0 is falsy.
SizeMatches(sized, size, content) ==
  /\ sized
  /\ size # 0
  /\ StatSize(content) = size

\* app.post('/check-file'); seen is the file as the request found it.
CheckFile(fileHash, fileName, sized, size) ==
  /\ Running
  /\ reply' =
       IF fileHash = Missing \/ fileName = Missing
       THEN [op |-> "check", hash |-> fileHash, name |-> fileName, sized |-> sized,
             size |-> size, status |-> 400]
       ELSE [op |-> "check", hash |-> fileHash, name |-> fileName, sized |-> sized,
             size |-> size, status |-> 200, seen |-> files[fileName],
             exists |-> ExistsSync(fileName) /\ SizeMatches(sized, size, files[fileName])]
  /\ UNCHANGED <<dirs, slots, files, pc, mHash, mName, chunks, idx, resp, ws, timer,
                 nUploads, upResp, sent, listed, late, earlier>>

\* ---------------------------------------------------------------- /verify
\* calculateFileHash: the md5 hex digest of the file's bytes, taken to be
\* free of collisions: the content behind a mark.
CalculateFileHash(content) == <<"d">> \o content

\* The position of the '-' that ends a match of /^temp-\d+-/ in s, or 0.
TempPrefix == <<"t", "e", "m", "p", "-">>
TempPrefixEnd(s) ==
  IF Len(s) < Len(TempPrefix) \/ SubSeq(s, 1, Len(TempPrefix)) # TempPrefix THEN 0
  ELSE LET ds == LeadingDigits(SubSeq(s, Len(TempPrefix) + 1, Len(s)))
           e == Len(TempPrefix) + Len(ds) + 1
       IN  IF ds # <<>> /\ e <= Len(s) /\ s[e] = "-" THEN e ELSE 0

\* fileHash.replace(/^temp-\d+-/, '').
StripTempPrefix(s) == SubSeq(s, TempPrefixEnd(s) + 1, Len(s))

\* A comparison with the declared hash as sent.
VerifiedExact(actualHash, fileHash) == fileHash = actualHash

\* actualHash === providedHash || fileHash === actualHash.
Verified(actualHash, fileHash) ==
  actualHash = StripTempPrefix(fileHash) \/ fileHash = actualHash

\* The declared hashes a client sends: the digest of some content, bare or
\* behind a prefix.
Temp7 == TempPrefix \o <<"7", "-">>
Temp40 == TempPrefix \o <<"4", "0", "-">>
Contents == {<<"A">>, <<"A", "B">>}
DeclaredHashes ==
  {CalculateFileHash(c) : c \in Contents} \cup
  {p \o CalculateFileHash(<<"A", "B">>) : p \in {Temp7, Temp40, TempPrefix, Temp7 \o Temp7}}

\* app.post('/verify'); seen is the file as calculateFileHash read it.
Verify(fileHash, fileName) ==
  /\ Running
  /\ reply' =
       IF fileHash = <<>> \/ fileName = Missing
       THEN [op |-> "verify", hash |-> fileHash, name |-> fileName, status |-> 400]
       ELSE IF ~ExistsSync(fileName)
       THEN [op |-> "verify", hash |-> fileHash, name |-> fileName, status |-> 404,
             verified |-> FALSE]
       ELSE LET actualHash == CalculateFileHash(files[fileName]) IN
            IF Verified(actualHash, fileHash)
            THEN [op |-> "verify", hash |-> fileHash, name |-> fileName,
                  status |-> 200, seen |-> files[fileName], verified |-> TRUE]
            ELSE [op |-> "verify", hash |-> fileHash, name |-> fileName,
                  status |-> 200, seen |-> files[fileName], verified |-> FALSE,
                  details |-> [expected |-> StripTempPrefix(fileHash),
                               actual |-> actualHash]]
  /\ UNCHANGED <<dirs, slots, files, pc, mHash, mName, chunks, idx, resp, ws, timer,
                 nUploads, upResp, sent, listed, late, earlier>>

\* -------------------------------------------------------------------- Next
\* The steps of the server under the /merge requests MS for the fileHashes
\* HS and at most u /upload requests.
Uploads(HS, u) ==
  \E h \in HS \cup {Missing}, k \in Keys \cup {<<>>}, b \in Bytes \cup {Missing} :
    nUploads < u /\ Upload(h, k, b)

NextOf(MS, HS, u) ==
  \/ Uploads(HS, u)
  \/ \E m \in MS, h \in HS \cup {Missing}, f \in Names \cup {Missing} :
       MergeStart(m, h, f)
  \/ \E m \in MS : MergeReaddir(m)
  \/ \E m \in MS : MergeRead(m)
  \/ \E m \in MS : MergeUnlink(m)
  \/ \E m \in MS : StreamOpen(m)
  \/ \E m \in MS : StreamWrite(m)
  \/ \E m \in MS : StreamFinish(m)
  \/ \E m \in MS : Cleanup(m)

\* Requests that overlap freely.
Next == NextOf(Merges, Hashes, MaxUploads - 1)
Spec == Init /\ [][Next]_vars

\* One /merge request, among the /upload requests.
SoloNext == NextOf({1}, Hashes, MaxUploads)
SpecSolo == Init /\ [][SoloNext]_vars

\* The event loop runs whatever continuation, stream step or timer is due;
\* the clients owe no request.
Due ==
  \E m \in Merges :
    \/ MergeReaddir(m) \/ MergeRead(m) \/ MergeUnlink(m)
    \/ StreamOpen(m) \/ StreamWrite(m) \/ StreamFinish(m)
    \/ Cleanup(m)
Fairness == WF_vars(Due)
\* One upload: its /upload requests and its /merge request, run fairly.
FairNext == NextOf({1}, {"H1"}, MaxUploads - 1)
SpecFair == Init /\ [][FairNext]_vars /\ Fairness

\* One /check-file or /verify request, at any moment of an upload: neither
\* changes the stores, so a second one would find nothing new.
CheckFileReq ==
  \E fileHash \in {"H1", Missing}, fileName \in {"F1", Missing},
     sized \in BOOLEAN, size \in Sizes :
     /\ reply = NoReply
     /\ sized \/ size = 0
     /\ CheckFile(fileHash, fileName, sized, size)
VerifyReq ==
  \E fileHash \in DeclaredHashes \cup {<<>>}, fileName \in {"F1", Missing} :
     /\ reply = NoReply
     /\ Verify(fileHash, fileName)
QueryNext == NextOf({1}, {"H1"}, MaxUploads - 1) \/ CheckFileReq \/ VerifyReq
SpecQuery == Init /\ [][QueryNext]_vars

\* One /merge request, among fewer /upload requests.
StoreNext == NextOf({1}, Hashes, MaxUploads - 1)
SpecStore == Init /\ [][StoreNext]_vars

\* Clients that keep to the contract: each chunk is sent once, with keys of
\* distinct numbers, before any /merge; then two /merge requests, which may
\* overlap.
Pair == {m \in Merges : m <= 2}
PairUploads ==
  \E h \in Hashes, k \in {K2a, K10b}, b \in Bytes :
    /\ nUploads < MaxUploads
    /\ slots[h][k] = Nil
    /\ \A m \in Merges : pc[m] = "idle"
    /\ Upload(h, k, b)
PairNext ==
  \/ PairUploads
  \/ \E m \in Pair, h \in Hashes, f \in Names : MergeStart(m, h, f)
  \/ \E m \in Pair : MergeReaddir(m)
  \/ \E m \in Pair : MergeRead(m)
  \/ \E m \in Pair : MergeUnlink(m)
  \/ \E m \in Pair : StreamOpen(m)
  \/ \E m \in Pair : StreamWrite(m)
  \/ \E m \in Pair : StreamFinish(m)
  \/ \E m \in Pair : Cleanup(m)
SpecPair == Init /\ [][PairNext]_vars

\* One upload on a store that may refuse the artifact or a chunk file.
FaultNext ==
  \/ NextOf({1}, {"H1"}, MaxUploads - 1)
  \/ \E m \in {1} : MergeReadFails(m)
  \/ \E m \in {1} : MergeUnlinkFails(m)
  \/ \E m \in {1} : StreamOpenFails(m)
  \/ \E m \in {1} : StreamWriteFails(m)
SpecFault == Init /\ [][FaultNext]_vars

\* A chunk file lies in an existing chunk directory.
TypeOK ==
  /\ dirs \subseteq Hashes
  /\ \A h \in Hashes : Entries(h) # {} => h \in dirs

\* ------------------------------------------------------------ properties
\* The chunk files request m listed.
Listed(m) == {k \in Keys : listed[m][k] # Nil}

\* Request m answered success and its write stream is closed.
Completed(m) == resp[m] = "ok" /\ ws[m].st = "closed"

\* No request overlapped request m: SpecSolo holds no other /merge, and no
\* /upload for its fileHash came after it started.
RanAlone(m) == ~late[m]

\* content is the bytes of the chunks m listed, in ascending order of the
\* number in front of each key.
AscendingConcat(m, content) ==
  \E o \in Enumerations(Listed(m)) :
    /\ \A i, j \in 1..Len(o) : i < j => KeyNumber[o[i]] < KeyNumber[o[j]]
    /\ content = [i \in 1..Len(o) |-> listed[m][o[i]]]

DistinctPrefixes(m) ==
  \A k1, k2 \in Listed(m) : k1 # k2 => KeyNumber[k1] # KeyNumber[k2]

\* C1: a merge that ran alone to completion over chunks with pairwise
\* distinct numeric prefixes leaves an artifact that is the concatenation of
\* the chunk bytes in ascending integer order of the prefixes, whatever the
\* order of the uploads and of the directory listing.
C1_MergeConcatenatesInKeyOrder ==
  \A m \in Merges :
    (Completed(m) /\ RanAlone(m) /\ DistinctPrefixes(m)) =>
      /\ ExistsSync(mName[m])
      /\ AscendingConcat(m, files[mName[m]])

\* A completed merge of keys 2-a and 10-b with different bytes: the artifact
\* holds the bytes of 2-a, then those of 10-b.
C1_Witness ==
  \E m \in Merges :
    /\ Completed(m) /\ RanAlone(m)
    /\ Listed(m) = {K2a, K10b}
    /\ listed[m][K2a] # listed[m][K10b]
    /\ files[mName[m]] = <<listed[m][K2a], listed[m][K10b]>>

\* C4: every /upload of (fileHash, key) replaces the slot's bytes, so a slot
\* holds the bytes of the last upload, and the artifact of a merge that ran
\* alone holds, at each key's position, the bytes of the last upload of it.
C4_ReuploadOverwrites ==
  /\ \A h \in Hashes, k \in Keys : slots[h][k] # Nil => slots[h][k] = sent[h][k].last
  /\ \A m \in Merges :
       (Completed(m) /\ RanAlone(m)) =>
         files[mName[m]] = [i \in 1..Len(chunks[m]) |-> sent[mHash[m]][chunks[m][i]].last]

\* A completed merge of two chunks, one of them uploaded twice with
\* different bytes.
C4_Witness ==
  \E m \in Merges :
    /\ Completed(m) /\ RanAlone(m)
    /\ Len(chunks[m]) = 2
    /\ \E i \in 1..2 :
         LET u == sent[mHash[m]][chunks[m][i]]
         IN  u.prev # Nil /\ u.prev # u.last /\ files[mName[m]][i] = u.last

\* C7: /check-file answers exists = true only when the named artifact exists
\* with a byte size equal to the declared size; when the name is absent, or
\* present with another size, it answers exists = false with status 200.
C7_CheckFileNeedsNameAndSize ==
  (reply.op = "check" /\ reply.hash # Missing /\ reply.name # Missing) =>
    /\ reply.status = 200
    /\ reply.exists =>
         reply.seen # NoFile /\ reply.sized /\ Len(reply.seen) = reply.size
    /\ (reply.seen = NoFile \/ (reply.sized /\ Len(reply.seen) # reply.size)) =>
         ~reply.exists

\* /check-file found a two-byte artifact under a declared size of 2.
C7_Witness ==
  /\ reply.op = "check" /\ reply.status = 200
  /\ reply.exists /\ reply.size = 2 /\ Len(reply.seen) = 2

\* p is a string 'temp-<digits>-'.
IsTempPrefix(p) ==
  /\ Len(p) >= Len(TempPrefix) + 2
  /\ SubSeq(p, 1, Len(TempPrefix)) = TempPrefix
  /\ p[Len(p)] = "-"
  /\ \A i \in (Len(TempPrefix) + 1)..(Len(p) - 1) : p[i] \in Digits

\* s is D behind a 'temp-<digits>-' prefix.
IsPrefixed(s, D) ==
  \E n \in 1..Len(s) :
    IsTempPrefix(SubSeq(s, 1, n)) /\ SubSeq(s, n + 1, Len(s)) = D

\* C8 as claimed: on an existing artifact of digest D, /verify answers
\* verified = true for the declared hash D and verified = false, with the
\* expected and actual values, for every other declared hash.
C8_VerifiedOnlyForDigest ==
  (reply.op = "verify" /\ reply.status = 200) =>
    LET D == CalculateFileHash(reply.seen) IN
    /\ reply.verified <=> reply.hash = D
    /\ ~reply.verified => reply.details.actual = D

\* C8, amended: verified = true exactly for the declared hash D and for D
\* behind a 'temp-<digits>-' prefix; every other declared hash gets
\* verified = false with actual = D and expected = the declared hash less
\* such a prefix.
C8_VerifiedForDigestOrPrefixed ==
  (reply.op = "verify" /\ reply.status = 200) =>
    LET D == CalculateFileHash(reply.seen) IN
    /\ reply.verified <=> (reply.hash = D \/ IsPrefixed(reply.hash, D))
    /\ ~reply.verified =>
         /\ reply.details.actual = D
         /\ \/ reply.details.expected = reply.hash
            \/ IsPrefixed(reply.hash, reply.details.expected)

\* /verify of artifact AB under its digest behind 'temp-7-': verified.
C8_Witness ==
  /\ reply.op = "verify" /\ reply.status = 200
  /\ reply.seen = <<"A", "B">>
  /\ reply.hash = Temp7 \o CalculateFileHash(reply.seen)
  /\ reply.verified

\* The bytes of the chunks m listed, in the order of its loop.
Full(m) == [i \in 1..Len(chunks[m]) |-> listed[m][chunks[m][i]]]

\* Request m runs its read-write-unlink loop.
InLoop(m) == pc[m] \in {"read", "unlink"}

\* C2: no two /merge requests of one fileHash run their loops at once.
C2_OneMergeLoopPerHash ==
  \A m, n \in Merges :
    (m # n /\ InLoop(m) /\ InLoop(n)) => mHash[m] # mHash[n]

\* C3: the artifact a merge writes is absent or fully assembled, never a
\* strict prefix of the merge's bytes, during the merge and after its failure.
C3_ArtifactAbsentOrComplete ==
  \A m \in Merges :
    ws[m].st \in {"opening", "open"} =>
      ~(/\ ExistsSync(mName[m])
        /\ Len(files[mName[m]]) < Len(Full(m))
        /\ files[mName[m]] = SubSeq(Full(m), 1, Len(files[mName[m]])))

\* C5: a merge that found no chunk (no directory, or an empty one) answers
\* the no-chunks error and opens no artifact.
C5_NoChunksRejected ==
  \A m \in Merges :
    (pc[m] = "done" /\ resp[m] # "badRequest" /\ Listed(m) = {}) =>
      resp[m] \in {"noDir", "noChunks"} /\ ws[m].st = "none"

\* C6: when a merge that ran alone has answered success, its artifact is
\* finalized and holds all bytes of all merged chunks.
C6_SuccessMeansFinalized ==
  \A m \in Merges :
    (resp[m] = "ok" /\ RanAlone(m)) =>
      ws[m].st = "closed" /\ files[mName[m]] = Full(m)

\* C9: after a merge succeeded with no /upload for its fileHash since it
\* started, no chunk file of the fileHash is left and the cleanup eventually
\* removes the chunk directory; a success answer stays a success answer.
C9_ChunksGoneDirRemoved ==
  /\ [](\A m \in Merges : (resp[m] = "ok" /\ ~late[m]) => Entries(mHash[m]) = {})
  /\ \A m \in Merges :
       (resp[m] = "ok" /\ ~late[m]) ~> (late[m] \/ mHash[m] \notin dirs)
  /\ [][\A m \in Merges : resp[m] = "ok" => resp'[m] = "ok"]_vars

\* A succeeded merge whose cleanup has removed the chunk directory.
C9_Witness ==
  \E m \in Merges :
    resp[m] = "ok" /\ ~late[m] /\ timer[m] = "fired" /\ mHash[m] \notin dirs

\* A chunk stored for h though a merge of h succeeded: it was uploaded after
\* that merge listed its chunks.
Orphan(h, k) ==
  slots[h][k] # Nil /\ \E m \in Merges : mHash[m] = h /\ resp[m] = "ok"

\* C10: a chunk uploaded during or after the merge of its fileHash is
\* eventually removed.
C10_OrphanEventuallyRemoved ==
  \A h \in Hashes, k \in Keys : Orphan(h, k) ~> (slots[h][k] = Nil)

\* C11: a merge whose artifact could not be opened or written has answered
\* the caller with an error, and with nothing else.
C11_StreamFailureReported ==
  \A m \in Merges : ws[m].st = "failed" => resp[m] = "error"

\* C12: two /upload requests of one fileHash with distinct keys leave the
\* same chunk store in either order, from every store the server reaches;
\* /merge reads nothing else of the uploads.
C12_UploadsCommute ==
  \A h \in Hashes, k1 \in Keys, k2 \in Keys, b1 \in Bytes, b2 \in Bytes :
    k1 # k2 =>
      LET first == PutChunk(dirs, slots, h, k1, b1)
          second == PutChunk(dirs, slots, h, k2, b2)
      IN  PutChunk(first.dirs, first.slots, h, k2, b2)
            = PutChunk(second.dirs, second.slots, h, k1, b1)

\* Two /upload requests alone, of keys 2-a and 10-b of one fileHash with
\* different bytes: both slots are stored.
C12_Witness ==
  /\ nUploads = 2
  /\ \E h \in Hashes :
       /\ slots[h][K2a] # Nil /\ slots[h][K10b] # Nil
       /\ slots[h][K2a] # slots[h][K10b]

\* The artifact under f is present and complete: a merge that answered
\* success and closed its stream left all its bytes there.
Complete(f) ==
  \E m \in Merges : Completed(m) /\ mName[m] = f /\ files[f] = Full(m)

\* C13: no step of a /merge request that started after the artifact's own
\* had answered changes the bytes of a complete artifact.
C13_CompleteArtifactImmutable ==
  [][\A f \in Names, n \in Merges :
       (Complete(f) /\ ws'[n] # ws[n] /\ mName[n] = f
          /\ \E m \in earlier[n] : Completed(m) /\ mName[m] = f /\ files[f] = Full(m))
         => files'[f] = files[f]]_vars

\* Key a goes before key b: by the number in front, then by the whole key.
KeyBefore(a, b) ==
  \/ KeyNumber[a] < KeyNumber[b]
  \/ KeyNumber[a] = KeyNumber[b] /\ CompareStrings(a, b).val < 0

\* C14: the artifact of a merge that ran alone to completion holds the bytes
\* of its chunks by ascending number and, among keys of one number, in the
\* lexical order of the whole keys, whatever order readdir listed them in.
C14_TiesInLexicalOrder ==
  \A m \in Merges :
    (Completed(m) /\ RanAlone(m)) =>
      \E o \in Enumerations(Listed(m)) :
        /\ \A i, j \in 1..Len(o) : i < j => KeyBefore(o[i], o[j])
        /\ files[mName[m]] = [i \in 1..Len(o) |-> listed[m][o[i]]]

\* C15: when a merge with no /upload for its fileHash since it started
\* answers an error from its loop, at the k-th chunk of its sorted list, the
\* chunks before k are deleted and the chunks from k on are stored as it
\* listed them.
C15_FailedMergeLeavesRest ==
  [][\A m \in Merges :
       (resp[m] = "none" /\ resp'[m] = "error" /\ idx[m] > 0 /\ ~late[m])
         => \A i \in 1..Len(chunks[m]) :
              slots'[mHash[m]][chunks[m][i]] =
                IF i < idx[m] THEN Nil ELSE listed[m][chunks[m][i]]]_vars

\* The step answers a request that lacks a required input: an /upload
\* without hash, fileHash or file, a /merge, /check-file or /verify without
\* fileHash or fileName.
RejectsInput ==
  \/ nUploads' # nUploads /\ upResp' \in {"badRequest", "error"}
  \/ \E m \in Merges : resp[m] = "none" /\ resp'[m] = "badRequest"
  \/ reply' # reply /\ reply'.status = 400

\* C16: a step that rejects a request for a missing input leaves the chunk
\* directories, the chunk files and the artifacts as they were.
C16_RejectedBeforeStorage ==
  [][RejectsInput => <<dirs, slots, files>>' = <<dirs, slots, files>>]_vars

\* C17: /check-file answers exists = true whenever the named artifact exists
\* and its byte size equals the declared size, a declared size of 0 included.
C17_CheckFileAnySize ==
  (/\ reply.op = "check" /\ reply.status = 200
   /\ reply.seen # NoFile /\ reply.sized /\ StatSize(reply.seen) = reply.size)
    => reply.exists

\* C18: when two merges of distinct fileHashes that name one file have both
\* answered success and closed their streams, the artifact holds the bytes
\* of one of the two, in its order.
C18_ArtifactOfOneMerge ==
  \A m, n \in Merges :
    (/\ m # n /\ Completed(m) /\ Completed(n)
     /\ mHash[m] # mHash[n] /\ mName[m] = mName[n])
      => files[mName[m]] \in {Full(m), Full(n)}

\* The step is one of /merge request m, of its write stream or of its timer.
Stepped(m) == pc'[m] # pc[m] \/ ws'[m] # ws[m] \/ timer'[m] # timer[m]

\* C19: a step of a /merge request leaves alone the chunk directory and the
\* chunk files of every fileHash but its own, and the artifact under every
\* file name but its own, also while /merge requests interleave.
C19_MergeTouchesOwnOnly ==
  [][\A m \in Merges :
       Stepped(m) =>
         /\ \A h \in Hashes :
              h # mHash'[m] => slots'[h] = slots[h] /\ (h \in dirs' <=> h \in dirs)
         /\ \A f \in Names : f # mName'[m] => files'[f] = files[f]]_vars

\* Two /merge requests of different fileHashes and file names in their
\* loops at once: one has deleted its first chunk while the chunk of the
\* other is still stored and the other's artifact holds a byte.
C19_Witness ==
  \E m, n \in Merges :
    /\ InLoop(m) /\ InLoop(n)
    /\ mHash[m] # mHash[n] /\ mName[m] # mName[n]
    /\ idx[m] = 2
    /\ Entries(mHash[n]) # {}
    /\ files[mName[n]] \notin {NoFile, <<>>}

\* C20: a /merge request of a fileHash that started after a /merge of that
\* fileHash had answered success, with no /upload for the fileHash since
\* that one started, answers the no-chunks error and opens no artifact,
\* whether the cleanup has run or not.
C20_RepeatedMergeNoChunks ==
  \A n \in Merges :
    (/\ pc[n] = "done" /\ mName[n] # Missing
     /\ \E m \in earlier[n] : mHash[m] = mHash[n] /\ ~late[m])
      => resp[n] \in {"noDir", "noChunks"} /\ ws[n].st = "none"

====
